---- MODULE Spec2Model ----
(***************************************************************************)
(* The upload orchestrator of the Large File Upload SDK (class             *)
(* FileUploader) together with the reference storage server it talks to.   *)
(*                                                                         *)
(* One step of the model is one run of JavaScript code between two         *)
(* suspension points: a public method call (addFiles, cancelUpload,        *)
(* destroy) or the continuation that runs when an awaited promise settles  *)
(* (fingerprint ready, response received, request aborted, backoff timer   *)
(* fired), with every promise continuation that is chained to it in the    *)
(* same turn of the event loop (catch blocks, Promise.all, .finally and the*)
(* processQueue call in it).                                               *)
(*                                                                         *)
(* Sizes are counted in megabytes.  The bytes of a file are identified by  *)
(* its size, so two files of equal size hold equal bytes.  A request is    *)
(* handled by the server in the step that delivers its response.           *)
(***************************************************************************)
EXTENDS Integers, Sequences, FiniteSets, TLC

(* ------------------------------ bounds -------------------------------- *)
\* number of files the user adds during one run
MaxFiles == 2
\* largest options.concurrentFiles that is tried
MaxConcurrentFiles == 2
\* largest options.concurrentChunks that is tried
MaxConcurrentChunks == 2
\* largest options.maxRetries that is tried
MaxRetriesOpt == 1
\* latest value Date.now() takes
MaxNow == 1

(* ------------------------- program constants -------------------------- *)
DefaultChunkSize == 2
DefaultConcurrentFiles == 3
DefaultConcurrentChunks == 3
DefaultMaxRetries == 3
BaseDelay == 1000
DelayCap == 10000

\* an option that is not given (undefined)
Unset == -1

NoMd5 == <<>>
NoError == ""

HttpError == "HTTP error! status: 500"
MissingChunk == "HTTP error! status: 400"
NetworkError == "Failed to fetch"
WorkerError == "Worker error"

Names == {"a"}

\* a file of one chunk, added several at a time, and a file of three chunks
\* whose last chunk is partial, added alone; an empty file is added alone too
SmallSize == DefaultChunkSize - 1
LargeSize == 2 * DefaultChunkSize + 1

VARIABLES
    options,            \* the options object given to the constructor
    chunkSize,          \* this.chunkSize
    concurrentFiles,    \* this.concurrentFiles
    concurrentChunks,   \* this.concurrentChunks
    maxRetries,         \* this.maxRetries
    uploadQueue,        \* this.uploadQueue: sequence of task ids
    uploadingCount,     \* this.uploadingCount
    files,              \* this.files: sequence of task ids
    abortControllers,   \* keys of this.abortControllers
    fileItems,          \* task id -> the fileItem object
    aborted,            \* task id -> signal.aborted of the task's AbortController
    proc,               \* task id -> where processFile(fileItem) is suspended
    chunksToUpload,     \* task id -> chunksToUpload of uploadChunksWithConcurrency
    index,              \* task id -> the shared cursor `index`
    workers,            \* task id -> the worker promises of the Chunk Scheduler
    notified,           \* task id -> snapshot passed to the last updateFileStatus
    requests,           \* task id -> network requests started so far
    claimed,            \* task id -> chunk indices claimed by workers, in order
    checked,            \* task id -> the response of the Check call, once received
    pool,               \* files the user has not added yet
    now,                \* last value read from Date.now()
    workerAvailable,    \* the environment can create the fingerprint worker
    fileIndex,          \* server: md5 -> path of the final artifact
    tempDir,            \* server: md5 -> chunk indices stored in temp/<md5>
    uploadDir           \* server: final artifacts written

config == <<options, chunkSize, concurrentFiles, concurrentChunks, maxRetries>>
orchestrator == <<uploadQueue, uploadingCount, files, abortControllers>>
scheduler == <<chunksToUpload, index, workers>>
history == <<requests, claimed, checked>>
server == <<fileIndex, tempDir, uploadDir>>
env == <<pool, now, workerAvailable>>
vars == <<config, orchestrator, fileItems, aborted, proc, scheduler, notified,
          history, env, server>>

(* ------------------------------ helpers ------------------------------- *)
Range(s) == {s[i] : i \in DOMAIN s}

Min(a, b) == IF a < b THEN a ELSE b

\* Math.ceil(a / b) for a >= 0, b > 0
Ceil(a, b) == (a + b - 1) \div b

\* Math.round(a / b * 100) for a >= 0, b > 0 (halves round up)
RoundPercent(a, b) == (200 * a + b) \div (2 * b)

\* options.x || d: undefined and 0 are falsy
OrDefault(opt, d) == IF opt = Unset \/ opt = 0 THEN d ELSE opt

\* the indices of S in ascending order: .sort((a, b) => a - b)
RECURSIVE SortedSeq(_)
SortedSeq(S) ==
    IF S = {} THEN <<>>
    ELSE LET m == CHOOSE x \in S : \A y \in S : x <= y
         IN <<m>> \o SortedSeq(S \ {m})

\* array.filter(keep)
RECURSIVE Filter(_, _)
Filter(s, keep) ==
    IF s = <<>> THEN <<>>
    ELSE (IF Head(s) \in keep THEN <<Head(s)>> ELSE <<>>) \o Filter(Tail(s), keep)

\* Array.from({ length: n }, (_, i) => i)
Indices(n) == [i \in 1..n |-> i - 1]

(* ---------------------------- environment ----------------------------- *)
AbortError == "AbortError"

\* SparkMD5 over the bytes of the file: a function of the content alone
SparkMD5(file) == <<"spark", file.size>>

\* 'md5-' + Date.now() + '-' + file.name
SimulatedMD5(file, time) == <<"md5-", time, file.name>>

\* path.join(uploadDir, `${md5}_${filename}`)
FinalPath(md5, filename) == <<md5, filename>>

(* ----------------------------- fileItem ------------------------------- *)
InFlight == {"checking", "uploading", "merging"}
Terminal == {"success", "error", "cancelled"}

NewFileItem(file) ==
    [file |-> file,
     status |-> "pending",
     progress |-> 0,
     name |-> file.name,
     size |-> file.size,
     uploadedChunks |-> <<>>,
     totalChunks |-> Ceil(file.size, chunkSize),
     md5 |-> NoMd5,
     error |-> NoError]

\* no request has left for a new task: the number of Check and merge calls and
\* the chunk indices for which a chunk request left
NoRequests == [check |-> 0, merge |-> 0, chunk |-> {}]

Tasks == DOMAIN fileItems

(* --------------------------- processQueue ----------------------------- *)
\* mutant: the loop admits one file too many
CanDispatchOffByOne(q, cnt) == Len(q) > 0 /\ cnt <= concurrentFiles

\* the loop condition of processQueue
CanDispatch(q, cnt) == Len(q) > 0 /\ cnt < concurrentFiles

\* the tasks the loop of processQueue shifts off the queue and starts
RECURSIVE Dispatched(_, _)
Dispatched(q, cnt) ==
    IF CanDispatch(q, cnt)
    THEN <<Head(q)>> \o Dispatched(Tail(q), cnt + 1)
    ELSE <<>>

\* processFile up to its first await: the controller is registered (by the
\* caller), the status set and notified, calculateMD5 started
ProcessFileStart(item) == [item EXCEPT !.status = "checking"]

\* processQueue() run on queue q with cnt files in flight; fi, reg, note and
\* pr are the task table, the registry, the notifications and the processFile
\* positions left by the code that ran before it in the same step
ProcessQueue(q, cnt, fi, reg, note, pr) ==
    LET d == Dispatched(q, cnt)
        D == Range(d)
        fi2 == [t \in DOMAIN fi |->
                   IF t \in D THEN ProcessFileStart(fi[t]) ELSE fi[t]]
    IN /\ uploadQueue' = SubSeq(q, Len(d) + 1, Len(q))
       /\ uploadingCount' = cnt + Len(d)
       /\ abortControllers' = reg \cup D
       /\ fileItems' = fi2
       /\ notified' = [t \in D |-> fi2[t]] @@ note
       /\ proc' = [t \in DOMAIN pr |-> IF t \in D THEN "md5" ELSE pr[t]]

\* mutant: the catch block drops the failure message
CaughtNoMessage(item, err) ==
    IF err = AbortError
    THEN [item EXCEPT !.status = "cancelled"]
    ELSE [item EXCEPT !.status = "error"]

\* the catch block of processFile
Caught(item, err) ==
    IF err = AbortError
    THEN [item EXCEPT !.status = "cancelled"]
    ELSE [item EXCEPT !.status = "error", !.error = err]

\* mutant: the slot of a settled file is not given back
SlotKept(cnt) == cnt

\* this.uploadingCount-- in the .finally callback
SlotReleased(cnt) == cnt - 1

\* processFile(t) returns leaving fileItem `item` (notified last, controller
\* deleted); the .finally callback decrements the count and runs processQueue
EndProcessFile(t, item) ==
    ProcessQueue(uploadQueue, SlotReleased(uploadingCount),
                 [fileItems EXCEPT ![t] = item],
                 abortControllers \ {t},
                 (t :> item) @@ notified,
                 [proc EXCEPT ![t] = "settled"])

\* the step leaves fileItem `item` for t, processFile(t) at pc; notify says
\* whether updateFileStatus ran after the last mutation
Suspend(t, item, notify, pc) ==
    /\ uploadQueue' = uploadQueue
    /\ uploadingCount' = uploadingCount
    /\ abortControllers' = abortControllers
    /\ fileItems' = [fileItems EXCEPT ![t] = item]
    /\ notified' = IF notify THEN (t :> item) @@ notified ELSE notified
    /\ proc' = [proc EXCEPT ![t] = pc]

(* ---------------------------- constructor ----------------------------- *)
\* File tier: several small files, every options.concurrentFiles.
\* Chunk tier: one large file, every options.concurrentChunks and maxRetries.
FileTierOptions ==
    [chunkSize : {Unset},
     concurrentFiles : 1..MaxConcurrentFiles,
     concurrentChunks : {Unset},
     maxRetries : 1..MaxRetriesOpt]

ChunkTierOptions ==
    [chunkSize : {Unset},
     concurrentFiles : {Unset},
     concurrentChunks : 1..MaxConcurrentChunks,
     maxRetries : 0..MaxRetriesOpt]

FileTierPools ==
    UNION {[1..n -> [name : Names, size : {SmallSize}]] : n \in 2..MaxFiles}

ChunkTierPools == [1..1 -> [name : Names, size : {0, SmallSize, LargeSize}]]

Scenarios ==
    [options : FileTierOptions, pool : FileTierPools]
    \cup [options : ChunkTierOptions, pool : ChunkTierPools]

Constructor(opts) ==
    /\ chunkSize = OrDefault(opts.chunkSize, DefaultChunkSize)
    /\ concurrentFiles = OrDefault(opts.concurrentFiles, DefaultConcurrentFiles)
    /\ concurrentChunks = OrDefault(opts.concurrentChunks, DefaultConcurrentChunks)
    /\ maxRetries = OrDefault(opts.maxRetries, DefaultMaxRetries)
    /\ uploadQueue = <<>>
    /\ uploadingCount = 0
    /\ files = <<>>
    /\ abortControllers = {}

\* what the storage server holds when the run starts: nothing, the final
\* artifact of one file, or some chunks of one file left by an interrupted
\* run; a run made with a smaller chunk size leaves an index that is not below
\* totalChunks (the handler stores whatever chunkIndex the request carries)
ServerStart(p) ==
    /\ \/ fileIndex = <<>> /\ tempDir = <<>>
       \/ /\ fileIndex = (SparkMD5(p[1]) :> FinalPath(SparkMD5(p[1]), p[1].name))
          /\ tempDir = <<>>
       \/ /\ fileIndex = <<>>
          /\ \E S \in SUBSET (0..Ceil(p[1].size, chunkSize)) :
                S # {} /\ tempDir = (SparkMD5(p[1]) :> S)
    /\ uploadDir = {fileIndex[k] : k \in DOMAIN fileIndex}

Init ==
    /\ \E sc \in Scenarios :
          options = sc.options /\ Constructor(sc.options) /\ pool = sc.pool
    /\ workerAvailable \in BOOLEAN
    /\ fileItems = <<>>
    /\ aborted = <<>>
    /\ proc = <<>>
    /\ chunksToUpload = <<>>
    /\ index = <<>>
    /\ workers = <<>>
    /\ notified = <<>>
    /\ requests = <<>>
    /\ claimed = <<>>
    /\ checked = <<>>
    /\ now = 0
    /\ ServerStart(pool)

(* ------------------------------ addFiles ------------------------------ *)
\* mutant: the new tasks are queued in reverse order
EnqueueReversed(q, ids) == q \o [i \in DOMAIN ids |-> ids[Len(ids) + 1 - i]]

\* this.uploadQueue = [...this.uploadQueue, ...newFiles]
Enqueue(q, ids) == q \o ids

AddFiles(n) ==
    /\ n \in 1..Len(pool)
    /\ LET first == Len(fileItems)
           ids == [i \in 1..n |-> first + i]
           newFiles == [i \in 1..n |-> NewFileItem(pool[i])]
       IN /\ files' = files \o ids
          /\ ProcessQueue(Enqueue(uploadQueue, ids), uploadingCount,
                          fileItems \o newFiles, abortControllers, notified,
                          proc \o [i \in 1..n |-> "queued"])
          /\ aborted' = aborted \o [i \in 1..n |-> FALSE]
          /\ chunksToUpload' = chunksToUpload \o [i \in 1..n |-> <<>>]
          /\ index' = index \o [i \in 1..n |-> 0]
          /\ workers' = workers \o [i \in 1..n |-> <<>>]
          /\ requests' = requests \o [i \in 1..n |-> NoRequests]
          /\ claimed' = claimed \o [i \in 1..n |-> <<>>]
          /\ checked' = checked \o [i \in 1..n |-> <<>>]
          /\ pool' = SubSeq(pool, n + 1, Len(pool))
    /\ UNCHANGED <<config, now, workerAvailable, server>>

(* ---------------------------- cancelUpload ---------------------------- *)
\* mutant: the cancelled task stays in the queue
RemoveFromQueueForgotten(q, t) == q

\* this.uploadQueue.filter(item => item.id !== fileId)
RemoveFromQueue(q, t) == Filter(q, Tasks \ {t})

\* mutant: the controller is dropped without being aborted
AbortForgotten(t) == aborted

\* mutant: every task's signal is aborted
AbortEveryone(t) == [u \in DOMAIN aborted |-> TRUE]

\* abortController.abort() for the controller found in the registry
Abort(t) == [aborted EXCEPT ![t] = TRUE]

CancelUpload(t) ==
    /\ t \in Tasks
    /\ t \in Range(files)
    /\ \/ /\ fileItems[t].status = "pending"
          /\ uploadQueue' = RemoveFromQueue(uploadQueue, t)
          /\ fileItems' = [fileItems EXCEPT ![t].status = "cancelled"]
          /\ notified' = (t :> fileItems'[t]) @@ notified
          /\ UNCHANGED <<abortControllers, aborted>>
       \/ /\ fileItems[t].status \in InFlight
          /\ IF t \in abortControllers
             THEN /\ aborted' = Abort(t)
                  /\ abortControllers' = abortControllers \ {t}
             ELSE UNCHANGED <<abortControllers, aborted>>
          /\ fileItems' = [fileItems EXCEPT ![t].status = "cancelled"]
          /\ notified' = (t :> fileItems'[t]) @@ notified
          /\ UNCHANGED uploadQueue
    /\ UNCHANGED <<config, uploadingCount, files, proc, scheduler, history,
                   env, server>>

(* ------------------------------ destroy ------------------------------- *)
\* mutant: the controllers are dropped without being aborted
SignalledNone(ab, reg) == ab

\* controller.abort() for every entry of the registry reg
Signalled(ab, reg) == [t \in DOMAIN ab |-> ab[t] \/ t \in reg]

Destroy ==
    /\ aborted' = Signalled(aborted, abortControllers)
    /\ abortControllers' = {}
    /\ uploadQueue' = <<>>
    /\ files' = <<>>
    /\ UNCHANGED <<config, uploadingCount, fileItems, proc, scheduler,
                   notified, history, env, server>>

(* --------------------------- calculateMD5 ----------------------------- *)
\* fetch(url, { signal }): a request leaves only if the signal is not aborted
FetchStarts(t) == ~aborted[t]

\* processFile continues after `await calculateMD5`: md5 is stored and
\* checkFile called
AfterMD5(t, md5) ==
    LET item == [fileItems[t] EXCEPT !.md5 = md5]
    IN IF FetchStarts(t)
       THEN /\ Suspend(t, item, FALSE, "check")
            /\ requests' = [requests EXCEPT ![t].check = @ + 1]
       ELSE /\ EndProcessFile(t, Caught(item, AbortError))
            /\ UNCHANGED requests

\* the worker posts { md5, success: true }
CalculateMD5Worker(t) ==
    /\ t \in Tasks
    /\ proc[t] = "md5"
    /\ workerAvailable
    /\ AfterMD5(t, SparkMD5(fileItems[t].file))
    /\ UNCHANGED <<config, files, aborted, scheduler, claimed, checked, env,
                   server>>

\* Worker is missing or cannot be created: calculateMD5Fallback resolves
CalculateMD5Fallback(t) ==
    /\ t \in Tasks
    /\ proc[t] = "md5"
    /\ ~workerAvailable
    /\ \E time \in now..MaxNow :
          /\ now' = time
          /\ AfterMD5(t, SimulatedMD5(fileItems[t].file, time))
    /\ UNCHANGED <<config, files, aborted, scheduler, claimed, checked,
                   pool, workerAvailable, server>>

\* the worker posts { success: false } or raises: the promise is rejected
CalculateMD5Reject(t) ==
    /\ t \in Tasks
    /\ proc[t] = "md5"
    /\ workerAvailable
    /\ EndProcessFile(t, Caught(fileItems[t], WorkerError))
    /\ UNCHANGED <<config, files, aborted, scheduler, history, env, server>>

(* ----------------------- uploadChunksWithConcurrency ------------------ *)
\* a worker: where it is suspended, the chunk it uploads, the loop variable i
\* of uploadWithRetry and the delays that call has slept so far
Finished == [pc |-> "done", chunkIndex |-> -1, i |-> 0, slept |-> <<>>]
Thrown == [pc |-> "thrown", chunkIndex |-> -1, i |-> 0, slept |-> <<>>]

\* 2^n
RECURSIVE Pow2(_)
Pow2(n) == IF n = 0 THEN 1 ELSE 2 * Pow2(n - 1)

\* mutant: the delay does not grow with the attempt
DelayConstant(i) == Min(BaseDelay, DelayCap)

\* Math.min(1000 * Math.pow(2, i), 10000)
Delay(i) == Min(BaseDelay * Pow2(i), DelayCap)

\* one pass of the for loop of uploadWithRetry up to `await fn(signal)`
Attempt(c, i, ab) ==
    IF ab THEN Thrown ELSE [pc |-> "fetch", chunkIndex |-> c, i |-> i, slept |-> <<>>]

\* uploadChunk(chunkIndex) up to its first await
UploadChunk(c, ab) == IF ab THEN Thrown ELSE Attempt(c, 0, ab)

\* the loop condition of a worker
WorkerContinues(ctu, idx, ab) == idx < Len(ctu) /\ ~ab

\* a worker at the head of its while loop with the cursor at idx
WorkerLoop(ctu, idx, ab) ==
    IF WorkerContinues(ctu, idx, ab) THEN UploadChunk(ctu[idx + 1], ab) ELSE Finished

\* mutant: the cursor is not advanced
CursorStuck(ctu, idx, ab) == idx

\* the cursor after a worker passed the head of its loop
CursorAfter(ctu, idx, ab) == IF WorkerContinues(ctu, idx, ab) THEN idx + 1 ELSE idx

\* mutant: one worker too many is created
WorkerCountOffByOne == concurrentChunks + 1

\* number of workers created
WorkerCount == concurrentChunks

\* Array.from({ length: n }, async () => ...): the workers run one after the
\* other up to their first await
RECURSIVE StartWorkers(_, _, _, _)
StartWorkers(n, ctu, idx, ab) ==
    IF n = 0 THEN <<>>
    ELSE <<WorkerLoop(ctu, idx, ab)>>
         \o StartWorkers(n - 1, ctu, CursorAfter(ctu, idx, ab), ab)

\* the cursor after n workers ran one after the other up to their first await
RECURSIVE CursorAfterStart(_, _, _, _)
CursorAfterStart(n, ctu, idx, ab) ==
    IF n = 0 THEN idx
    ELSE CursorAfterStart(n - 1, ctu, CursorAfter(ctu, idx, ab), ab)

\* the chunk indices the workers ws hold a request for, in worker order
RECURSIVE ClaimedBy(_)
ClaimedBy(ws) ==
    IF ws = <<>> THEN <<>>
    ELSE (IF Head(ws).pc = "fetch" THEN <<Head(ws).chunkIndex>> ELSE <<>>)
         \o ClaimedBy(Tail(ws))

\* the chunk indices for which a request left, given the workers' new states
Requested(req, ws) ==
    [req EXCEPT !.chunk = @ \cup {ws[w].chunkIndex : w \in {v \in DOMAIN ws : ws[v].pc = "fetch"}}]

(* ---------------------------- storage server -------------------------- *)
\* POST /api/upload/check
ServerCheck(md5) ==
    IF md5 \in DOMAIN fileIndex
    THEN [exists |-> TRUE, uploadedChunks |-> <<>>]
    ELSE [exists |-> FALSE,
          uploadedChunks |-> IF md5 \in DOMAIN tempDir
                             THEN SortedSeq(tempDir[md5]) ELSE <<>>]

\* POST /api/upload/chunk: temp/<md5>/<chunkIndex>.chunk is written
ServerChunk(md5, c) ==
    IF md5 \in DOMAIN tempDir
    THEN [tempDir EXCEPT ![md5] = @ \cup {c}]
    ELSE (md5 :> {c}) @@ tempDir

\* mutant: the handler merges without looking for the chunks first
MergeStatusUnchecked(md5, total) ==
    IF md5 \notin DOMAIN tempDir \/ tempDir[md5] \ (0..(total - 1)) # {}
    THEN 500
    ELSE 200

\* POST /api/upload/merge: the status of the response
MergeStatus(md5, total) ==
    IF \E i \in 0..(total - 1) : md5 \notin DOMAIN tempDir \/ i \notin tempDir[md5]
    THEN 400
    ELSE IF md5 \notin DOMAIN tempDir \/ tempDir[md5] \ (0..(total - 1)) # {}
         THEN 500
         ELSE 200

\* POST /api/upload/merge: what the handler leaves on the disk
ServerMerge(md5, filename, total) ==
    LET status == MergeStatus(md5, total)
        path == FinalPath(md5, filename)
    IN /\ uploadDir' = IF status = 400 THEN uploadDir ELSE uploadDir \cup {path}
       /\ tempDir' = IF status = 400 \/ md5 \notin DOMAIN tempDir THEN tempDir
                     ELSE IF status = 500
                          THEN [tempDir EXCEPT ![md5] = @ \ (0..(total - 1))]
                          ELSE [k \in DOMAIN tempDir \ {md5} |-> tempDir[k]]
       /\ fileIndex' = IF status = 200 THEN (md5 :> path) @@ fileIndex ELSE fileIndex

(* ------------------------- processFile, continued --------------------- *)
\* mergeFile is called with fileItem `item` (notify: whether the status was
\* notified since the last mutation); req are the requests counted so far
StartMerge(t, item, notify, req) ==
    IF FetchStarts(t)
    THEN /\ Suspend(t, item, notify, "merge")
         /\ requests' = [requests EXCEPT ![t] = [req EXCEPT !.merge = @ + 1]]
    ELSE /\ EndProcessFile(t, Caught(item, AbortError))
         /\ requests' = [requests EXCEPT ![t] = req]

\* processFile after uploadChunksWithConcurrency returned
AfterUpload(t, item, req) ==
    StartMerge(t, [item EXCEPT !.status = "merging"], TRUE, req)

\* The promise continuations that follow one worker's step.  ws are the
\* workers of t after the step, err the error the stepping worker threw
\* (NoError if none), awaited whether processFile(t) is awaiting Promise.all.
AfterWorker(t, item, notify, ws, err, awaited, req) ==
    /\ workers' = [workers EXCEPT ![t] = ws]
    /\ IF ~awaited
       THEN /\ Suspend(t, item, notify, proc[t])
            /\ requests' = [requests EXCEPT ![t] = req]
       ELSE IF err # NoError
       THEN /\ EndProcessFile(t, Caught(item, err))
            /\ requests' = [requests EXCEPT ![t] = req]
       ELSE IF \A w \in DOMAIN ws : ws[w].pc = "done"
       THEN IF aborted[t]
            THEN /\ EndProcessFile(t, Caught(item, AbortError))
                 /\ requests' = [requests EXCEPT ![t] = req]
            ELSE AfterUpload(t, item, req)
       ELSE /\ Suspend(t, item, notify, "upload")
            /\ requests' = [requests EXCEPT ![t] = req]

\* the chunks that still need to be uploaded
ChunksToUpload(total, uploaded) ==
    Filter(Indices(total), Range(Indices(total)) \ Range(uploaded))

\* mutant: instant transfer leaves the progress as it was
InstantTransferNoProgress(item) == [item EXCEPT !.status = "success"]

\* instant transfer: the file already exists
InstantTransfer(item) == [item EXCEPT !.status = "success", !.progress = 100]

\* the response of the Check call arrives
CheckResponse(t) ==
    /\ t \in Tasks
    /\ proc[t] = "check"
    /\ ~aborted[t]
    /\ LET item == fileItems[t]
           checkResult == ServerCheck(item.md5)
           ctu == ChunksToUpload(item.totalChunks, checkResult.uploadedChunks)
           item1 == [item EXCEPT !.uploadedChunks = checkResult.uploadedChunks]
           ws == StartWorkers(WorkerCount, ctu, 0, aborted[t])
           req == Requested(requests[t], ws)
           idx == CursorAfterStart(WorkerCount, ctu, 0, aborted[t])
       IN IF checkResult.exists
          THEN /\ EndProcessFile(t, InstantTransfer(item))
               /\ UNCHANGED <<scheduler, requests, claimed>>
          ELSE IF Len(ctu) = 0
          THEN /\ StartMerge(t, item1, FALSE, requests[t])
               /\ UNCHANGED <<scheduler, claimed>>
          ELSE /\ chunksToUpload' = [chunksToUpload EXCEPT ![t] = ctu]
               /\ index' = [index EXCEPT ![t] = idx]
               /\ claimed' = [claimed EXCEPT ![t] = ClaimedBy(ws)]
               /\ AfterWorker(t, [item1 EXCEPT !.status = "uploading"], TRUE,
                              ws, NoError, TRUE, req)
    /\ checked' = [checked EXCEPT ![t] = <<ServerCheck(fileItems[t].md5)>>]
    /\ UNCHANGED <<config, files, aborted, env, server>>

\* the Check call fails: a response that is not ok, or no response at all
CheckFail(t, err) ==
    /\ t \in Tasks
    /\ proc[t] = "check"
    /\ ~aborted[t]
    /\ EndProcessFile(t, Caught(fileItems[t], err))
    /\ UNCHANGED <<config, files, aborted, scheduler, history, env, server>>

\* the signal was aborted while the Check call was outstanding
CheckAborted(t) ==
    /\ t \in Tasks
    /\ proc[t] = "check"
    /\ aborted[t]
    /\ EndProcessFile(t, Caught(fileItems[t], AbortError))
    /\ UNCHANGED <<config, files, aborted, scheduler, history, env, server>>

\* the chunk endpoint answers ok to worker w of task t
ChunkResponse(t, w) ==
    /\ t \in Tasks
    /\ w \in DOMAIN workers[t]
    /\ workers[t][w].pc = "fetch"
    /\ ~aborted[t]
    /\ LET item == fileItems[t]
           c == workers[t][w].chunkIndex
           pushed == Append(item.uploadedChunks, c)
           item1 == [item EXCEPT !.uploadedChunks = pushed,
                                 !.progress = RoundPercent(Len(pushed), item.totalChunks)]
           ctu == chunksToUpload[t]
           next == WorkerLoop(ctu, index[t], aborted[t])
           ws == [workers[t] EXCEPT ![w] = next]
           req == Requested(requests[t], <<next>>)
       IN /\ tempDir' = ServerChunk(item.md5, c)
          /\ index' = [index EXCEPT ![t] = CursorAfter(ctu, index[t], aborted[t])]
          /\ claimed' = [claimed EXCEPT ![t] =
                            IF next.pc = "fetch" THEN Append(@, next.chunkIndex) ELSE @]
          /\ AfterWorker(t, item1, TRUE, ws,
                         IF next.pc = "thrown" THEN AbortError ELSE NoError,
                         proc[t] = "upload", req)
    /\ UNCHANGED <<config, files, aborted, chunksToUpload, checked, env,
                   fileIndex, uploadDir>>

\* the chunk request of worker w fails: a response that is not ok, or none
ChunkFail(t, w, err) ==
    /\ t \in Tasks
    /\ w \in DOMAIN workers[t]
    /\ workers[t][w].pc = "fetch"
    /\ ~aborted[t]
    /\ LET wk == workers[t][w]
           sleeps == wk.i < maxRetries
           ws == [workers[t] EXCEPT ![w] =
                     IF sleeps
                     THEN [wk EXCEPT !.pc = "sleep", !.slept = Append(@, Delay(wk.i))]
                     ELSE Thrown]
       IN AfterWorker(t, fileItems[t], FALSE, ws,
                      IF sleeps THEN NoError ELSE err,
                      proc[t] = "upload", requests[t])
    /\ UNCHANGED <<config, files, aborted, chunksToUpload, index, claimed,
                   checked, env, server>>

\* the signal was aborted while the chunk request of worker w was outstanding
ChunkAborted(t, w) ==
    /\ t \in Tasks
    /\ w \in DOMAIN workers[t]
    /\ workers[t][w].pc = "fetch"
    /\ aborted[t]
    /\ AfterWorker(t, fileItems[t], FALSE, [workers[t] EXCEPT ![w] = Thrown],
                   AbortError, proc[t] = "upload", requests[t])
    /\ UNCHANGED <<config, files, aborted, chunksToUpload, index, claimed,
                   checked, env, server>>

\* the backoff timer of worker w fires: the next pass of the retry loop
BackoffElapsed(t, w) ==
    /\ t \in Tasks
    /\ w \in DOMAIN workers[t]
    /\ workers[t][w].pc = "sleep"
    /\ LET wk == workers[t][w]
           again == Attempt(wk.chunkIndex, wk.i + 1, aborted[t])
           next == IF again.pc = "fetch" THEN [again EXCEPT !.slept = wk.slept]
                   ELSE again
       IN AfterWorker(t, fileItems[t], FALSE, [workers[t] EXCEPT ![w] = next],
                      IF next.pc = "thrown" THEN AbortError ELSE NoError,
                      proc[t] = "upload", Requested(requests[t], <<next>>))
    /\ UNCHANGED <<config, files, aborted, chunksToUpload, index, claimed,
                   checked, env, server>>

\* the response of the merge call arrives
MergeResponse(t) ==
    /\ t \in Tasks
    /\ proc[t] = "merge"
    /\ ~aborted[t]
    /\ LET item == fileItems[t]
           status == MergeStatus(item.md5, item.totalChunks)
       IN /\ ServerMerge(item.md5, item.file.name, item.totalChunks)
          /\ EndProcessFile(t,
                IF status = 200
                THEN [item EXCEPT !.status = "success", !.progress = 100]
                ELSE Caught(item, IF status = 400 THEN MissingChunk ELSE HttpError))
    /\ UNCHANGED <<config, files, aborted, scheduler, history, env>>

\* the merge call gets no response
MergeFail(t) ==
    /\ t \in Tasks
    /\ proc[t] = "merge"
    /\ ~aborted[t]
    /\ EndProcessFile(t, Caught(fileItems[t], NetworkError))
    /\ UNCHANGED <<config, files, aborted, scheduler, history, env, server>>

\* the signal was aborted while the merge call was outstanding
MergeAborted(t) ==
    /\ t \in Tasks
    /\ proc[t] = "merge"
    /\ aborted[t]
    /\ EndProcessFile(t, Caught(fileItems[t], AbortError))
    /\ UNCHANGED <<config, files, aborted, scheduler, history, env, server>>

(* --------------------------- specification ---------------------------- *)
TaskIds == 1..MaxFiles
WorkerIds == 1..(MaxConcurrentChunks + DefaultConcurrentChunks)
Failures == {HttpError, NetworkError}

Next ==
    \/ \E n \in 1..MaxFiles : AddFiles(n)
    \/ \E t \in TaskIds : CancelUpload(t)
    \/ Destroy
    \/ \E t \in TaskIds : CalculateMD5Worker(t)
    \/ \E t \in TaskIds : CalculateMD5Fallback(t)
    \/ \E t \in TaskIds : CalculateMD5Reject(t)
    \/ \E t \in TaskIds : CheckResponse(t)
    \/ \E t \in TaskIds, err \in Failures : CheckFail(t, err)
    \/ \E t \in TaskIds : CheckAborted(t)
    \/ \E t \in TaskIds, w \in WorkerIds : ChunkResponse(t, w)
    \/ \E t \in TaskIds, w \in WorkerIds, err \in Failures : ChunkFail(t, w, err)
    \/ \E t \in TaskIds, w \in WorkerIds : ChunkAborted(t, w)
    \/ \E t \in TaskIds, w \in WorkerIds : BackoffElapsed(t, w)
    \/ \E t \in TaskIds : MergeResponse(t)
    \/ \E t \in TaskIds : MergeFail(t)
    \/ \E t \in TaskIds : MergeAborted(t)

Spec == Init /\ [][Next]_vars

(* ------------------- runs without failure or cancel ------------------- *)
\* a chunk request fails with an attempt left: uploadWithRetry will sleep
\* and try again
ChunkFailTransient(t, w, err) ==
    /\ ChunkFail(t, w, err)
    /\ workers[t][w].i < maxRetries

\* the steps of a run in which cancelUpload and destroy are not called, the
\* fingerprint is delivered, no request is left without a response and a
\* chunk request fails at most maxRetries times
NextLive ==
    \/ \E n \in 1..MaxFiles : AddFiles(n)
    \/ \E t \in TaskIds : CalculateMD5Worker(t)
    \/ \E t \in TaskIds : CalculateMD5Fallback(t)
    \/ \E t \in TaskIds : CheckResponse(t)
    \/ \E t \in TaskIds, w \in WorkerIds : ChunkResponse(t, w)
    \/ \E t \in TaskIds, w \in WorkerIds, err \in Failures : ChunkFailTransient(t, w, err)
    \/ \E t \in TaskIds, w \in WorkerIds : BackoffElapsed(t, w)
    \/ \E t \in TaskIds : MergeResponse(t)

\* every pending promise settles and every timer fires: the event loop runs
\* each continuation that stays ready
Fairness ==
    \A t \in TaskIds :
        /\ WF_vars(CalculateMD5Worker(t))
        /\ WF_vars(CalculateMD5Fallback(t))
        /\ WF_vars(CheckResponse(t))
        /\ WF_vars(MergeResponse(t))
        /\ \A w \in WorkerIds :
              /\ WF_vars(ChunkResponse(t, w))
              /\ WF_vars(BackoffElapsed(t, w))

LiveSpec == Init /\ [][NextLive]_vars /\ Fairness

(* ---------------------- runs in which no timer fires ----------------- *)
\* the event loop runs every continuation that an abort makes ready and
\* delivers the fingerprint; nothing is assumed about the backoff timers
AbortFairness ==
    \A t \in TaskIds :
        /\ WF_vars(CalculateMD5Worker(t))
        /\ WF_vars(CalculateMD5Fallback(t))
        /\ WF_vars(CheckAborted(t))
        /\ WF_vars(MergeAborted(t))
        /\ \A w \in WorkerIds : WF_vars(ChunkAborted(t, w))

CancelSpec == Init /\ [][Next]_vars /\ AbortFairness

(* ============================== claims ================================ *)
\* the tasks whose processFile has started and has not settled
Running == {t \in Tasks : proc[t] \in {"md5", "check", "upload", "merge"}}

\* the chunk uploads of t that have started and have not settled
ActiveChunks(t) == {w \in DOMAIN workers[t] : workers[t][w].pc \in {"fetch", "sleep"}}

\* s holds every index of 0..n-1 exactly once and nothing else
IsPermutation(s, n) ==
    /\ Len(s) = n
    /\ Range(s) = 0..(n - 1)

NoDuplicates(s) == \A i, j \in DOMAIN s : s[i] = s[j] => i = j

\* the progress the fileItem should show
DerivedProgress(item) ==
    IF item.status = "success" THEN 100
    ELSE IF item.totalChunks = 0 THEN item.progress
    ELSE RoundPercent(Len(item.uploadedChunks), item.totalChunks)

\* the step starts a check, chunk or merge request for t
StartsRequest(t) ==
    \/ proc[t] # "check" /\ proc'[t] = "check"
    \/ proc[t] # "merge" /\ proc'[t] = "merge"
    \/ requests'[t] # requests[t]
    \/ \E w \in DOMAIN workers'[t] :
          /\ workers'[t][w].pc = "fetch"
          /\ w \in DOMAIN workers[t] => workers[t][w] # workers'[t][w]

\* C1: at any instant at most concurrentFiles File State Machines have been
\* started and have not settled, and the in-flight counter is never negative.
C1_InFlightBound ==
    /\ Cardinality(Running) <= concurrentFiles
    /\ uploadingCount >= 0

\* the bound is reached while a task waits in the queue and a running task
\* has been cancelled
C1_Witness ==
    /\ Cardinality(Running) = concurrentFiles
    /\ uploadQueue # <<>>
    /\ \E t \in Running : fileItems[t].status = "cancelled"

\* C2: for every file, at every instant, at most concurrentChunks chunk
\* uploads have started and not settled, those in a backoff sleep included.
C2_ChunkBound == \A t \in Tasks : Cardinality(ActiveChunks(t)) <= concurrentChunks

\* every worker is busy, one of them in a backoff sleep, and a chunk is
\* still unclaimed
C2_Witness ==
    \E t \in Tasks :
        /\ Cardinality(ActiveChunks(t)) = concurrentChunks
        /\ \E w \in ActiveChunks(t) : workers[t][w].pc = "sleep"
        /\ index[t] < Len(chunksToUpload[t])

\* C3: while the merge call of a task is outstanding, and so when it is
\* invoked, uploadedChunks holds every index of [0, totalChunks) exactly
\* once and nothing else.  (Fails when the Check call lists an index that
\* is not below totalChunks: see C17.)
C3_MergeComplete ==
    \A t \in Tasks :
        proc[t] = "merge" =>
            IsPermutation(fileItems[t].uploadedChunks, fileItems[t].totalChunks)

\* C4: at every suspension point and in every notification, progress is
\* round(|uploadedChunks| / totalChunks * 100), or 100 when the status is
\* success.
C4_ProgressDerived ==
    /\ \A t \in Tasks : fileItems[t].progress = DerivedProgress(fileItems[t])
    /\ \A t \in DOMAIN notified : notified[t].progress = DerivedProgress(notified[t])

\* C5: once the status of a task is cancelled, no check, chunk or merge
\* request is started for it.
C5_NoRequestAfterCancel ==
    [][\A t \in Tasks : fileItems[t].status = "cancelled" => ~StartsRequest(t)]_vars

\* a task cancelled during its upload has settled with chunks left unclaimed
\* and a worker still in its backoff sleep
C5_Witness ==
    \E t \in Tasks :
        /\ fileItems[t].status = "cancelled"
        /\ proc[t] = "settled"
        /\ index[t] < Len(chunksToUpload[t])
        /\ requests[t].merge = 0
        /\ \E w \in DOMAIN workers[t] : workers[t][w].pc = "sleep"

\* C6: once the status of a task is success, error or cancelled, none of its
\* fields changes again.
C6_TerminalImmutable ==
    [][\A t \in Tasks :
          fileItems[t].status \in Terminal => fileItems'[t] = fileItems[t]]_vars

\* C7: a task cancelled by cancelUpload while it was in flight keeps the
\* status cancelled, and no merge call is issued for it.
C7_CancelledStays ==
    [][\A t \in Tasks :
          fileItems[t].status = "cancelled" /\ aborted[t] =>
              /\ fileItems'[t].status = "cancelled"
              /\ requests'[t].merge = requests[t].merge]_vars

\* C8: if the Check call reports exists = true, the task has status success
\* and progress 100, and no chunk or merge call is ever issued for it.
C8_InstantTransfer ==
    \A t \in Tasks :
        checked[t] # <<>> /\ checked[t][1].exists =>
            /\ fileItems[t].status = "success"
            /\ fileItems[t].progress = 100
            /\ requests[t].chunk = {}
            /\ requests[t].merge = 0
            /\ workers[t] = <<>>

\* a second task with the content of a merged first task is transferred
\* instantly
C8_Witness ==
    \E t, u \in Tasks :
        /\ t # u
        /\ requests[u].merge = 1
        /\ fileItems[u].status = "success"
        /\ checked[t] # <<>>
        /\ checked[t][1].exists
        /\ fileItems[t].status = "success"

\* C9: after a Check call that reports exists = false and the stored chunks
\* U, the claimed indices are distinct, lie in [0, totalChunks) \ U and are
\* the indices a chunk request left for; once the Chunk Scheduler has
\* returned they are exactly [0, totalChunks) \ U.
C9_ClaimedExactly ==
    \A t \in Tasks :
        LET stored == IF checked[t] = <<>> THEN {}
                      ELSE Range(checked[t][1].uploadedChunks)
            missing == (0..(fileItems[t].totalChunks - 1)) \ stored
        IN /\ NoDuplicates(claimed[t])
           /\ Range(claimed[t]) \subseteq missing
           /\ requests[t].chunk = Range(claimed[t])
           /\ claimed[t] # <<>> => checked[t] # <<>> /\ ~checked[t][1].exists
           /\ requests[t].merge > 0 => Range(claimed[t]) = missing

\* resume: chunks 0 and 1 are stored, only index 2 is uploaded, then merge
C9_Witness ==
    \E t \in Tasks :
        /\ checked[t] # <<>>
        /\ checked[t][1].uploadedChunks = <<0, 1>>
        /\ claimed[t] = <<2>>
        /\ proc[t] = "merge"

\* a task cancelled while pending: out of the queue, never started
PendingCancelled(t) ==
    /\ fileItems[t].status = "cancelled"
    /\ proc[t] = "queued"

\* C10: cancelUpload on a pending task removes it from the queue and sets
\* its status to cancelled at once; it is never dispatched afterwards and no
\* fingerprint computation or network call occurs for it.
C10_PendingCancel ==
    /\ [](\A t \in Tasks :
            PendingCancelled(t) =>
                /\ t \notin Range(uploadQueue)
                /\ t \notin abortControllers
                /\ fileItems[t].md5 = NoMd5
                /\ requests[t] = NoRequests
                /\ notified[t] = fileItems[t])
    /\ [][\A t \in Tasks :
            /\ PendingCancelled(t) => PendingCancelled(t)'
            /\ (fileItems[t].status = "pending" /\ fileItems'[t].status = "cancelled")
                  => PendingCancelled(t)']_vars

\* a task was cancelled while pending and the queue was processed afterwards
\* with room for it
C10_Witness ==
    \E t \in Tasks :
        /\ PendingCancelled(t)
        /\ uploadingCount = 0
        /\ \E u \in Tasks : proc[u] = "settled"

\* a task that destroy() dropped from the queue and the task list while it
\* was pending
DroppedPending(t) ==
    /\ fileItems[t].status = "pending"
    /\ t \notin Range(files)

\* C11: tasks are started in the order addFiles appended them: the queue
\* holds the pending tasks in the order they were appended, and when a task
\* has been started every task appended before it has been started too,
\* unless it was cancelled while pending (or dropped by destroy).
C11_FifoAdmission ==
    /\ \A i, j \in DOMAIN uploadQueue : i < j => uploadQueue[i] < uploadQueue[j]
    /\ \A a, b \in Tasks :
          a < b /\ proc[b] # "queued" /\ proc[a] = "queued" =>
              PendingCancelled(a) \/ DroppedPending(a)

\* two tasks were appended by one addFiles call with room for one: the
\* second waited in the queue and was started when the first settled
C11_Witness ==
    \E a, b \in Tasks :
        /\ a < b
        /\ concurrentFiles = 1
        /\ proc[a] = "settled"
        /\ fileItems[a].status = "success"
        /\ proc[b] = "md5"
        /\ b \in Range(files)

\* the state destroy() leaves: nothing queued, listed or registered
Destroyed ==
    /\ uploadQueue = <<>>
    /\ files = <<>>
    /\ abortControllers = {}

\* C12: destroy() signals the cancellation handle of every in-flight task
\* and leaves the queue, the task list and the registry empty, without a
\* notification; called again in the state it left, it changes nothing.
C12_Destroy ==
    [][Destroy =>
          /\ \A t \in Tasks :
                fileItems[t].status \in InFlight \/ t \in Running => aborted'[t]
          /\ Destroyed'
          /\ notified' = notified
          /\ Destroyed => UNCHANGED vars]_vars

\* destroy() was called with one task in flight and one waiting: the first
\* is signalled and has not settled yet, the second was dropped
C12_Witness ==
    /\ Destroyed
    /\ \E t, u \in Tasks :
          /\ aborted[t]
          /\ fileItems[t].status \in InFlight
          /\ DroppedPending(u)

\* C13: for every configured maxRetries >= 0, 0 included, a chunk upload
\* that fails on every attempt is attempted exactly maxRetries + 1 times: no
\* attempt has a number above the configured maxRetries (counted from 0) and
\* no sleep follows attempt number maxRetries.
C13_AttemptsExact ==
    options.maxRetries # Unset =>
        \A t \in Tasks : \A w \in DOMAIN workers[t] :
            /\ workers[t][w].pc = "fetch" => workers[t][w].i <= options.maxRetries
            /\ workers[t][w].pc = "sleep" => workers[t][w].i < options.maxRetries

\* the sleeps of a chunk upload before its attempt number i (from 0), in ms
SleepsBefore(i) == SubSeq(<<1000, 2000, 4000, 8000, 10000, 10000>>, 1, i)

\* C14: the sleep after failed attempt i (from 0) is min(1000 * 2^i, 10000)
\* ms for every i < maxRetries and none follows the last attempt: a call in
\* attempt i has slept 1000, 2000, 4000, ... for the i attempts before; the
\* cap applies from the fifth sleep on; and a chunk whose request succeeds
\* in attempt i is recorded as uploaded after exactly these i sleeps.
C14_Backoff ==
    /\ [](/\ \A i \in 0..5 : Delay(i) = SleepsBefore(6)[i + 1]
          /\ \A t \in Tasks : \A w \in ActiveChunks(t) :
                LET wk == workers[t][w]
                IN /\ wk.pc = "fetch" => wk.slept = SleepsBefore(wk.i)
                   /\ wk.pc = "sleep" =>
                         /\ wk.i < maxRetries
                         /\ wk.slept = SleepsBefore(wk.i + 1))
    /\ [][\A t \in Tasks :
            LET done == fileItems[t].uploadedChunks
                done1 == fileItems'[t].uploadedChunks
            IN checked[t] # <<>> /\ Len(done1) = Len(done) + 1 =>
                  \E w \in ActiveChunks(t) :
                      /\ workers[t][w].pc = "fetch"
                      /\ workers[t][w].chunkIndex = done1[Len(done1)]
                      /\ workers[t][w].slept = SleepsBefore(workers[t][w].i)
                      /\ workers'[t][w] # workers[t][w]]_vars

\* a chunk request failed twice and is in its third attempt, after sleeps of
\* 1000 and 2000 ms, while another chunk of the file has been recorded
C14_Witness ==
    \E t \in Tasks : \E w \in ActiveChunks(t) :
        /\ workers[t][w].pc = "fetch"
        /\ workers[t][w].i = 2
        /\ workers[t][w].slept = <<1000, 2000>>
        /\ ~aborted[t]
        /\ fileItems[t].uploadedChunks # <<>>

\* C15: after a chunk worker of a file failed with its retries exhausted
\* and the file settled to error, no sibling worker claims a further index
\* and no chunk request is started for the file.
C15_SiblingsStop ==
    [][\A t \in Tasks :
          fileItems[t].status = "error" =>
              /\ claimed'[t] = claimed[t]
              /\ ~StartsRequest(t)]_vars

\* C16: in every reachable state, after cancelUpload and destroy() too, the
\* registry holds an entry for a task exactly when the status of the task is
\* checking, uploading or merging.
C16_RegistryIffInFlight ==
    \A t \in Tasks : t \in abortControllers <=> fileItems[t].status \in InFlight

\* C17: whatever list the Check call returns, uploadedChunks holds no
\* duplicate and only indices of [0, totalChunks), and never loses an index.
C17_UploadedChunksValid ==
    /\ [](\A t \in Tasks :
            /\ NoDuplicates(fileItems[t].uploadedChunks)
            /\ Range(fileItems[t].uploadedChunks)
                  \subseteq 0..(fileItems[t].totalChunks - 1))
    /\ [][\A t \in Tasks :
            Range(fileItems[t].uploadedChunks)
                \subseteq Range(fileItems'[t].uploadedChunks)]_vars

\* the step cancels task t or makes it fail
CancelledOrFailed(t) ==
    \/ fileItems[t].status # "cancelled" /\ fileItems'[t].status = "cancelled"
    \/ fileItems[t].status # "error" /\ fileItems'[t].status = "error"

\* C18: a step that cancels task t or makes it fail changes no field and no
\* registry entry of another task u, signals no other handle and leaves the
\* workers of u alone; the one thing that may happen to u in the step is its
\* dispatch from the queue when t's settlement frees a slot.
C18_OthersUntouched ==
    [][\A t, u \in Tasks :
          t # u /\ CancelledOrFailed(t) =>
              /\ aborted'[u] = aborted[u]
              /\ workers'[u] = workers[u]
              /\ u \in abortControllers => u \in abortControllers'
              /\ IF proc[u] = "queued" /\ proc'[u] # "queued"
                 THEN /\ fileItems'[u] = ProcessFileStart(fileItems[u])
                      /\ proc[t] # "settled" /\ proc'[t] = "settled"
                 ELSE /\ fileItems'[u] = fileItems[u]
                      /\ proc'[u] = proc[u]
                      /\ u \in abortControllers' => u \in abortControllers]_vars

\* task t was cancelled while task u was in flight next to it: u still holds
\* its registry entry, is not signalled and waits for its merge response
C18_Witness ==
    \E t, u \in Tasks :
        /\ t # u
        /\ fileItems[t].status = "cancelled"
        /\ aborted[t]
        /\ proc[t] # "settled"
        /\ proc[u] = "merge"
        /\ u \in abortControllers
        /\ ~aborted[u]

\* C20: a failure of the worker-based fingerprint computation never moves
\* the task to error: no task ends with the worker's error, and a task whose
\* fingerprint is being computed does not become error in one step.
C20_WorkerFailureFallsBack ==
    /\ [](\A t \in Tasks : fileItems[t].error # WorkerError)
    /\ [][\A t \in Tasks :
            proc[t] = "md5" => fileItems'[t].status # "error"]_vars

\* task t ended in success with progress 100 after one merge call
Succeeded(t) ==
    /\ fileItems[t].status = "success"
    /\ fileItems[t].progress = 100
    /\ requests[t].merge = 1
    /\ proc[t] = "settled"

\* the Check call of t reported exists = true, or its merge call was rejected
Excused(t) ==
    \/ checked[t] # <<>> /\ checked[t][1].exists
    \/ fileItems[t].error \in {MissingChunk, HttpError}

\* C19: without cancelUpload and destroy, with a Check call that reports
\* exists = false and a fingerprint, chunk uploads and a merge that succeed,
\* every added task is eventually dispatched and reaches success with
\* progress 100 after exactly one merge call.
C19_EventuallySuccess ==
    \A t \in TaskIds :
        [](t \in Tasks => <>(t \in Tasks /\ (Succeeded(t) \/ Excused(t))))

\* a fresh 3-chunk file: the Check call listed nothing, the task uploaded
\* the three indices itself and ended in success after one merge call
C19_Witness ==
    \E t \in Tasks :
        /\ Succeeded(t)
        /\ fileItems[t].totalChunks = 3
        /\ checked[t] = <<[exists |-> FALSE, uploadedChunks |-> <<>>]>>
        /\ Range(claimed[t]) = 0..2

\* C21: fingerprinting is a function of the content: two tasks whose files
\* hold the same bytes have the same fingerprint once both are computed,
\* whenever the computations ran.
C21_FingerprintDeterministic ==
    \A t, u \in Tasks :
        /\ fileItems[t].md5 # NoMd5
        /\ fileItems[u].md5 # NoMd5
        /\ fileItems[t].file.size = fileItems[u].file.size
        => fileItems[t].md5 = fileItems[u].md5

\* the step delivers the response of the server to the merge call of t
MergeAnswered(t) ==
    /\ proc[t] = "merge"
    /\ proc'[t] = "settled"
    /\ ~aborted[t]
    /\ fileItems'[t].error # NetworkError

\* an index of [0, totalChunks) has no chunk stored for the fingerprint of t
ChunkMissing(t) ==
    \E i \in 0..(fileItems[t].totalChunks - 1) :
        \/ fileItems[t].md5 \notin DOMAIN tempDir
        \/ i \notin tempDir[fileItems[t].md5]

\* C22: when an index of [0, totalChunks) has no stored chunk, Merge answers
\* with a non-success response (400, seen by the task as its error) and the
\* stored chunks, the final artifacts and the fingerprint index stay as they
\* were.
C22_MergeRejectsMissing ==
    [][\A t \in Tasks :
          MergeAnswered(t) /\ ChunkMissing(t) =>
              /\ fileItems'[t].status = "error"
              /\ fileItems'[t].error = MissingChunk
              /\ UNCHANGED server]_vars

\* two tasks with the same content ran side by side: the merge of one took
\* the chunks away and the merge of the other was rejected
C22_Witness ==
    \E t, u \in Tasks :
        /\ t # u
        /\ fileItems[t].error = MissingChunk
        /\ fileItems[u].status = "success"
        /\ fileItems[u].md5 = fileItems[t].md5
        /\ fileItems[t].md5 \in DOMAIN fileIndex

\* C23: when every index of [0, totalChunks) is stored for the fingerprint,
\* Merge succeeds and the task ends in success, for every totalChunks >= 0,
\* the empty file (totalChunks = 0, merge without any chunk upload) included.
C23_MergeSucceedsWhenComplete ==
    [][\A t \in Tasks :
          MergeAnswered(t) /\ ~ChunkMissing(t) =>
              fileItems'[t].status = "success"]_vars

\* the step delivers the response of the Check call of t
CheckAnswered(t) == checked[t] = <<>> /\ checked'[t] # <<>>

\* the merge of another task with the content of t has succeeded
MergedBefore(t) ==
    \E u \in Tasks \ {t} :
        /\ fileItems[u].file.size = fileItems[t].file.size
        /\ fileItems[u].status = "success"
        /\ requests[u].merge = 1

\* C24: after a Merge for a fingerprint has succeeded every later Check for
\* it returns exists = true, so a task with the same content that is checked
\* afterwards is told exists = true and ends in success with no chunk or
\* merge call.
C24_MergedIsFound ==
    /\ [](\A f \in DOMAIN fileIndex : ServerCheck(f).exists)
    /\ [][DOMAIN fileIndex \subseteq DOMAIN fileIndex']_vars
    /\ [][\A t \in Tasks :
            CheckAnswered(t) /\ MergedBefore(t) =>
                /\ checked'[t][1].exists
                /\ fileItems'[t].status = "success"
                /\ requests'[t].chunk = {}
                /\ requests'[t].merge = 0]_vars

\* the edges of the state diagram of a task
StatusEdges ==
    {<<"pending", "checking">>, <<"checking", "success">>,
     <<"checking", "uploading">>, <<"checking", "merging">>,
     <<"uploading", "merging">>, <<"merging", "success">>}
    \cup (InFlight \X {"error"})
    \cup (({"pending"} \cup InFlight) \X {"cancelled"})

\* C25: every change of a task's status follows an edge of the state
\* diagram; in particular a terminal status is never replaced.
C25_StatusEdges ==
    [][\A t \in Tasks :
          fileItems'[t].status # fileItems[t].status =>
              <<fileItems[t].status, fileItems'[t].status>> \in StatusEdges]_vars

\* C26: while a merge call is outstanding for a task (and the task has not
\* been cancelled meanwhile), the status of the task is merging, also when
\* the Check call listed every chunk and none was uploaded.
C26_MergingDuringMerge ==
    \A t \in Tasks :
        proc[t] = "merge" /\ ~aborted[t] => fileItems[t].status = "merging"

\* C27: a task whose cancellation was signalled settles (and gives its slot
\* back) without any backoff timer having to fire, also when the signal
\* came while the Retry Executor was sleeping between two attempts.
C27_CancelNeedsNoTimer ==
    \A t \in TaskIds :
        [](t \in Tasks /\ aborted[t] => <>(t \in Tasks /\ proc[t] = "settled"))

\* C28: a failed Check call is retried like a chunk upload: a task is set to
\* error out of its Check call only after maxRetries + 1 Check requests.
C28_CheckRetried ==
    [][\A t \in Tasks :
          proc[t] = "check" /\ fileItems'[t].status = "error" =>
              requests[t].check = maxRetries + 1]_vars

\* C29: merge is invoked at most once per task; a non-success merge
\* response moves the task to error in the same step, with the failure
\* message in error and no further merge call; and error is present only
\* when the status is error.
C29_MergeNotRetried ==
    /\ [](\A t \in Tasks :
            /\ requests[t].merge <= 1
            /\ fileItems[t].error # NoError => fileItems[t].status = "error")
    /\ [][\A t \in Tasks :
            MergeAnswered(t) /\ fileItems'[t].status # "success" =>
                /\ fileItems'[t].status = "error"
                /\ fileItems'[t].error \in {MissingChunk, HttpError}
                /\ requests'[t].merge = requests[t].merge]_vars

\* the merge of a task was answered 500 and the task is in error after one
\* merge call
C29_Witness ==
    \E t \in Tasks :
        /\ requests[t].merge = 1
        /\ proc[t] = "settled"
        /\ fileItems[t].status = "error"
        /\ fileItems[t].error = HttpError

\* C30: every mutation of a task is notified before the next suspension
\* point: at every suspension point the snapshot passed to the last
\* updateFileStatus call equals the current fields of the task.
C30_NotifiedSnapshot ==
    \A t \in DOMAIN notified : notified[t] = fileItems[t]

\* C31: at every point between two orchestrator operations, if the queue is
\* not empty then exactly concurrentFiles tasks have status checking,
\* uploading or merging, also after cancelUpload on a task in flight.
C31_Saturated ==
    uploadQueue # <<>> =>
        Cardinality({t \in Tasks : fileItems[t].status \in InFlight}) = concurrentFiles

\* C32: a task leaves the queue exactly once, and only by being dispatched
\* or by cancelUpload while it is pending; so a task with status pending is
\* always in the queue, under addFiles, cancelUpload and destroy.
C32_QueueLeftOnce ==
    /\ [](\A t \in Tasks :
            fileItems[t].status = "pending" => t \in Range(uploadQueue))
    /\ [][\A t \in Tasks :
            /\ t \in Range(uploadQueue) /\ t \notin Range(uploadQueue') =>
                  \/ proc'[t] = "md5" /\ fileItems'[t].status = "checking"
                  \/ PendingCancelled(t)'
            /\ t \notin Range(uploadQueue) => t \notin Range(uploadQueue')]_vars

\* the step starts a chunk upload for t: a worker claims an index or sends
\* a chunk request
StartsChunkUpload(t) ==
    \/ claimed'[t] # claimed[t]
    \/ requests'[t].chunk # requests[t].chunk
    \/ \E w \in DOMAIN workers'[t] :
          /\ workers'[t][w].pc = "fetch"
          /\ w \in DOMAIN workers[t] => workers[t][w] # workers'[t][w]

\* C33: after destroy() has returned no chunk upload is started for a task
\* created before the call (such a task is no longer in the task list),
\* whatever its state was, settled to error with workers running included.
C33_NoUploadAfterDestroy ==
    [][\A t \in Tasks : t \notin Range(files) => ~StartsChunkUpload(t)]_vars

\* the Check call of t found nothing stored for its fingerprint
CheckedFresh(t) == checked[t] = <<[exists |-> FALSE, uploadedChunks |-> <<>>]>>

\* C34: two tasks with the same fingerprint that are in flight at the same
\* time (both were told by Check that nothing is stored yet) and whose
\* requests all get their response both reach success: neither ends in
\* error, under every interleaving of their calls.
C34_TwinsSucceed ==
    \A t, u \in Tasks :
        /\ t # u
        /\ fileItems[t].md5 = fileItems[u].md5
        /\ CheckedFresh(t)
        /\ CheckedFresh(u)
        => fileItems[t].status # "error"

====
